---- MODULE Spec2Model ----
(***************************************************************************)
(* A model of disco.voice.client.VoiceClient: the voice gateway session    *)
(* (state machine, transport open/close handling, heartbeat monitor,       *)
(* reconnection with backoff, connect/disconnect).                         *)
(*                                                                         *)
(* Concurrency is gevent's: greenlets interleave only where they block     *)
(* (gevent.sleep, the transport's run_forever/close, the emitter wait in   *)
(* connect).  Each action below is one run of a handler between two such   *)
(* points.  Every websocket created by connect_and_run is one transport    *)
(* t in Transports; its callbacks (on_open, on_message, on_close) are the  *)
(* actions indexed by t.                                                   *)
(***************************************************************************)
EXTENDS Integers, FiniteSets, Sequences, TLC

\* ------------------------------------------------------------------ bounds
\* Number of websockets that exist at one time: open or opening, or closed
\* with a close handler of theirs still at work.
MaxTransports == 2

\* Largest value self._reconnects takes in one behaviour.
MaxAttempts == 2

\* Number of distinct endpoints, and of distinct tokens, the gateway gives a
\* session in one behaviour.
MaxEndpoints == 2
MaxTokens == 2

\* Number of distinct SSRCs, and of distinct users, in the voice channel.
MaxSsrcs == 3
MaxUsers == 2

Transports == 1..MaxTransports

\* Values of the endpoint, the token and the channel id; 0 stands for None.
Endpoints == 1..MaxEndpoints
Tokens    == 1..MaxTokens
Channels  == {1, 2}

\* data['audio_ssrc'] / data['ssrc'] and int(data['user_id']) of the
\* CLIENT_CONNECT, SPEAKING and CLIENT_DISCONNECT payloads.
Ssrcs == 1..MaxSsrcs
Users == 1..MaxUsers

\* The max_reconnects values a session is constructed with (0: no limit).
MaxReconnectsValues == {0, 1}

\* on_close(code=None): the value standing for a missing close code.
NoCode == -1

\* Close codes the transport may report.
CloseCodes == {NoCode, 0, 1000, 1001, 4000, 4001, 4006, 4015, 4016, 4017}

\* One close code of each kind on_close tells apart: none, a code outside
\* the hard range and a code inside it.
SessionCodes == {NoCode, 1000, 4006}

\* wait_time of a hard and of a soft close.
HardWait == 5
SoftWait == 1

\* VoiceClient.SUPPORTED_MODES, a Python set.
SUPPORTED_MODES ==
    {"xsalsa20_poly1305_lite", "xsalsa20_poly1305_suffix", "xsalsa20_poly1305"}

\* The orders `for mode in self.SUPPORTED_MODES` may visit the set in: the
\* iteration order of a set of strings follows their hashes, which Python
\* randomises per process, so every order of the three is possible.
ModeOrders ==
    {o \in [1..3 -> SUPPORTED_MODES] : \A i, j \in 1..3 : i # j => o[i] # o[j]}

\* Modes a READY payload may advertise: the supported ones and others.
AdvertisedModes ==
    SUPPORTED_MODES \cup {"aead_aes256_gcm", "aead_xchacha20_poly1305_rtpsize"}

\* ------------------------------------------------------------------- state
VARIABLES
    state,            \* self.state (VoiceState)
    endpoint,         \* self.endpoint, 0 = None
    token,            \* self.token, 0 = None
    channel_id,       \* self.channel_id, 0 = None
    ws,               \* self.ws: the transport it refers to, 0 = None
    identified,       \* self._identified
    heartbeat_acknowledged, \* self._heartbeat_acknowledged
    reconnects,       \* self._reconnects
    max_reconnects,   \* self.max_reconnects
    registered,       \* server_id in client.state.voice_clients
    udp,              \* self.udp: "none" (None), "connected", "disconnected"
    sock,             \* per transport: "unused", "connecting" (run_forever
                      \* started, on_open not yet called), "open",
                      \* "closed" (closed by ws.close(), close callback not
                      \* yet delivered), "done" (on_close callback delivered)
    sent,             \* per transport: the last handshake frame sent on it,
                      \* "none" again once its close callback is delivered
    hbTask,           \* per transport t: the heartbeat greenlet spawned by
                      \* the HELLO received on t: "none", "started" (no
                      \* iteration yet), "running" (asleep between two
                      \* iterations), "closing" (back from ws.close, about
                      \* to call on_close), "sleeping" (in on_close's
                      \* gevent.sleep), "dead"
    hbRef,            \* self._heartbeat_task: the transport whose greenlet
                      \* it refers to, 0 = None
    backoff,          \* per transport t: wait_time of the on_close callback
                      \* of t that is in gevent.sleep, 0 = none
    connPc,           \* the connect() call: "idle" (none yet, or the last
                      \* one is over), "waiting" (in state_emitter.once),
                      \* "returned" (the last one returned at once)
    connMove,         \* that call found the state CONNECTED (in-place move)
    connVsu,          \* voice-state-updates sent by that call so far
    discEvents,       \* VoiceDisconnect events emitted so far
    failed,           \* history: transports reopened by on_close since the
                      \* state was last CONNECTED
    fresh,            \* history: the endpoint changed or a hard close was
                      \* handled, and on_open has not run since
    forced,           \* history: the websocket the heartbeat greenlet last
                      \* closed for a missed acknowledgement, 0 = none
    forcedRuns,       \* history: runs of on_close for that close, by the
                      \* greenlet or by the websocket's callback, that went
                      \* on to reconnect (0 again once that websocket's
                      \* name is taken by a new one)
    err,              \* the exception the last step raised to its caller,
                      \* "none" if none (on_message catches and logs what
                      \* a handler raises, so a message raises none)
    mode,             \* self.mode, "none" = None
    audio_ssrcs,      \* self.audio_ssrcs: the dict as the sequence of its
                      \* items <<ssrc, user_id>> in insertion order
    ssrcUser,         \* history: the user of the CLIENT_CONNECT handled by
                      \* the last step, 0 when it was another step
    ssrcBefore        \* history: self.audio_ssrcs before that CLIENT_CONNECT

\* The fields the media handlers work on.
mediaVars == <<mode, audio_ssrcs, ssrcUser, ssrcBefore>>

vars == <<state, endpoint, token, channel_id, ws, identified,
          heartbeat_acknowledged, reconnects, max_reconnects, registered, udp,
          sock, sent, hbTask, hbRef, backoff, connPc, connMove, connVsu,
          discEvents,
          failed, fresh, forced, forcedRuns, err, mode, audio_ssrcs,
          ssrcUser, ssrcBefore>>

\* self.ws and self.ws.sock and self.ws.sock.connected
Connected(w) == w # 0 /\ sock[w] = "open"

\* bool(greenlet): started and not yet finished
Alive == {"started", "running", "closing", "sleeping"}

\* The name t stands for no websocket at work: none was created under it,
\* or its close callback has returned and the heartbeat greenlet spawned on
\* it has finished.  The next Websocket object takes such a name.
Free(t) ==
    \/ sock[t] = "unused"
    \/ sock[t] = "done" /\ backoff[t] = 0 /\ hbTask[t] \notin Alive

\* The name of the next websocket object connect_and_run creates, 0 when the
\* model's bound is used up.
NextFree ==
    IF \E t \in Transports : Free(t)
    THEN CHOOSE t \in Transports : Free(t) /\ \A u \in Transports : Free(u) => t <= u
    ELSE 0

Init ==
    /\ state = "DISCONNECTED"
    /\ endpoint = 0
    /\ token = 0
    /\ channel_id = 0
    /\ ws = 0
    /\ identified = FALSE
    /\ heartbeat_acknowledged = TRUE
    /\ reconnects = 0
    /\ max_reconnects \in MaxReconnectsValues
    /\ registered = TRUE
    /\ udp = "none"
    /\ sock = [t \in Transports |-> "unused"]
    /\ sent = [t \in Transports |-> "none"]
    /\ hbTask = [t \in Transports |-> "none"]
    /\ hbRef = 0
    /\ backoff = [t \in Transports |-> 0]
    /\ connPc = "idle"
    /\ connMove = FALSE
    /\ connVsu = 0
    /\ discEvents = 0
    /\ failed = 0
    /\ fresh = FALSE
    /\ forced = 0
    /\ forcedRuns = 0
    /\ err = "none"
    /\ mode = "none"
    /\ audio_ssrcs = <<>>
    /\ ssrcUser = 0
    /\ ssrcBefore = <<>>

\* ------------------------------------------------------------ pure helpers
\* IsHardClose with the upper end of the range excluded.
IsHardClose_Exclusive(code) ==
    /\ code # NoCode
    /\ code # 0
    /\ ((4000 < code /\ code < 4016) \/ code = 1001)

\* on_close: code and (4000 < code <= 4016 or code == 1001)
IsHardClose(code) ==
    /\ code # NoCode
    /\ code # 0
    /\ ((4000 < code /\ code <= 4016) \/ code = 1001)

\* ReconnectsExceeded allowing one attempt more.
ReconnectsExceeded_Late(n, max) == max # 0 /\ n > max + 1

\* on_close: self.max_reconnects and self._reconnects > self.max_reconnects
ReconnectsExceeded(n, max) == max # 0 /\ n > max

\* on_open: RESUME when identified, IDENTIFY otherwise
HandshakeOp(id) == IF id THEN "RESUME" ELSE "IDENTIFY"

\* on_voice_ready's loop over SUPPORTED_MODES visited in the given order:
\* the first mode visited that data['modes'] holds, "none" when the loop
\* ends without a break (the else branch raises).
SelectMode(order, modes) ==
    IF \E i \in 1..3 : order[i] \in modes
    THEN order[CHOOSE i \in 1..3 :
                  /\ order[i] \in modes
                  /\ \A j \in 1..3 : order[j] \in modes => i <= j]
    ELSE "none"

\* send(op, data): the frame goes out on self.ws when it is connected and is
\* dropped otherwise.  s is the sock map at the time of the call.
SendOn(w, s, frames, op) ==
    IF w # 0 /\ s[w] = "open" THEN [frames EXCEPT ![w] = op] ELSE frames


\* set_endpoint: endpoint.split(':', 1)[0].  An endpoint argument is a pair
\* <<host, port>>, port 0 when the string carries none.
StripPort(ep) == ep[1]

\* The arguments of set_endpoint and of set_token.  The code only compares
\* an argument with the current value, so a value that differs from the
\* current one is named by the next number.
EndpointArgs == {e \in Endpoints : e = endpoint \/ e = endpoint + 1} \X {0, 443}

TokenArgs == {tk \in Tokens : tk = token \/ tk = token + 1}

\* connect_and_run with an endpoint: a new Websocket replaces self.ws and
\* run_forever starts connecting it.  The websocket self.ws referred to
\* before is neither closed nor remembered.
OpenedSock(s) == [s EXCEPT ![NextFree] = "connecting"]

\* What a map or a reference held about the websocket that had the name
\* NextFree before: nothing of it concerns the new one.
Renamed(f, v) == [f EXCEPT ![NextFree] = v]

Forgotten(r) == IF r = NextFree THEN 0 ELSE r

\* The count kept for the forced close of that websocket goes with it.
ForgottenRuns == IF forced = NextFree THEN 0 ELSE forcedRuns

\* disconnect() past its state check, run on the given values of state-
\* dependent fields: the record of what it leaves.  A missing registry entry
\* makes `del` raise KeyError before the VoiceDisconnect event is emitted.
DoDisconnect(w, s, u) ==
    [ state      |-> "DISCONNECTED",
      sock       |-> IF w # 0 /\ s[w] = "open" THEN [s EXCEPT ![w] = "closed"] ELSE s,
      ws         |-> IF w # 0 /\ s[w] = "open" THEN 0 ELSE w,
      udp        |-> IF u # "none" THEN "disconnected" ELSE u,
      registered |-> FALSE,
      discEvents |-> IF registered THEN discEvents + 1 ELSE discEvents,
      err        |-> IF registered THEN "none" ELSE "KeyError" ]

\* d[k] = v on a dict: the value of an existing key is replaced where the
\* item stands, a new key is added at the end.
DictSet(d, k, v) ==
    IF \E i \in 1..Len(d) : d[i][1] = k
    THEN [i \in 1..Len(d) |-> IF d[i][1] = k THEN <<k, v>> ELSE d[i]]
    ELSE Append(d, <<k, v>>)

\* on_voice_client_disconnect's loop: the first key, in the dict's order,
\* whose value is v is deleted and the loop breaks.
DelFirstValue(d, v) ==
    IF \E i \in 1..Len(d) : d[i][2] = v
    THEN LET f == CHOOSE i \in 1..Len(d) :
                     /\ d[i][2] = v
                     /\ \A j \in 1..Len(d) : d[j][2] = v => i <= j
         IN  [i \in 1..(Len(d) - 1) |-> IF i < f THEN d[i] ELSE d[i + 1]]
    ELSE d

\* ------------------------------------------------- set_endpoint, set_token
SetEndpoint(ep) ==
    LET e == StripPort(ep) IN
    /\ err' = "none"
    /\ IF endpoint = e
       THEN UNCHANGED <<endpoint, sock, ws, identified, fresh>>
       ELSE /\ endpoint' = e
            /\ IF Connected(ws)
               THEN sock' = [sock EXCEPT ![ws] = "closed"] /\ ws' = 0
               ELSE UNCHANGED <<sock, ws>>
            /\ identified' = FALSE
            /\ fresh' = TRUE
    /\ UNCHANGED <<failed, forced, forcedRuns, state, token, channel_id, heartbeat_acknowledged, reconnects,
                   max_reconnects, registered, udp, sent, hbTask, hbRef, backoff,
                   connPc, connMove, connVsu, discEvents>>
    /\ UNCHANGED mediaVars

\* set_token runs connect_and_run when not identified.  With self.endpoint
\* still None, 'wss://' + self.endpoint raises TypeError (the token is
\* already stored).
SetToken(tk) ==
    /\ token # tk /\ ~identified /\ endpoint # 0 => NextFree # 0
    /\ IF token = tk
       THEN UNCHANGED <<token, sock, ws, sent, hbTask, hbRef, forced, forcedRuns>> /\ err' = "none"
       ELSE /\ token' = tk
            /\ IF identified
               THEN UNCHANGED <<sock, ws, sent, hbTask, hbRef, forced, forcedRuns>> /\ err' = "none"
               ELSE IF endpoint = 0
                    THEN UNCHANGED <<sock, ws, sent, hbTask, hbRef, forced, forcedRuns>> /\ err' = "TypeError"
                    ELSE /\ sock' = OpenedSock(sock)
                         /\ ws' = NextFree
                         /\ sent' = Renamed(sent, "none")
                         /\ hbTask' = Renamed(hbTask, "none")
                         /\ hbRef' = Forgotten(hbRef)
                         /\ forced' = Forgotten(forced)
                         /\ forcedRuns' = ForgottenRuns
                         /\ err' = "none"
    /\ UNCHANGED <<failed, fresh, state, endpoint, channel_id, identified, heartbeat_acknowledged,
                   reconnects, max_reconnects, registered, udp,
                   backoff, connPc, connMove, connVsu, discEvents>>
    /\ UNCHANGED mediaVars

\* ---------------------------------------------------- transport callbacks
\* on_open of transport t, called once its socket is connected.
OnOpen(t) ==
    /\ sock[t] = "connecting"
    /\ sock' = [sock EXCEPT ![t] = "open"]
    /\ sent' = SendOn(ws, sock', sent, HandshakeOp(identified))
    /\ fresh' = FALSE
    /\ err' = "none"
    /\ UNCHANGED <<failed, forced, forcedRuns, state, endpoint, token, channel_id, ws, identified,
                   heartbeat_acknowledged, reconnects, max_reconnects, registered,
                   udp, hbTask, hbRef, backoff, connPc, connMove, connVsu,
                   discEvents>>
    /\ UNCHANGED mediaVars

\* HELLO on t: spawn the heartbeat greenlet, state AUTHENTICATED.  The
\* greenlet self._heartbeat_task referred to before is not killed.  The
\* server sends HELLO once per connection.
OnHello(t) ==
    /\ sock[t] = "open"
    /\ hbTask[t] = "none"
    /\ hbTask' = [hbTask EXCEPT ![t] = "started"]
    /\ hbRef' = t
    /\ state' = "AUTHENTICATED"
    /\ err' = "none"
    /\ UNCHANGED <<failed, fresh, forced, forcedRuns, endpoint, token, channel_id, ws, identified,
                   heartbeat_acknowledged, reconnects, max_reconnects, registered,
                   udp, sock, sent, backoff, connPc, connMove, connVsu, discEvents>>
    /\ UNCHANGED mediaVars

\* READY on t, the server's answer to IDENTIFY.  modes: data['modes'];
\* order: the order the loop visits SUPPORTED_MODES in; ipOk: UDP IP
\* discovery succeeds.  An exception raised by the handler is caught and
\* logged by on_message.
OnReady(t, modes, order, ipOk) ==
    LET found == SelectMode(order, modes) IN
    /\ sock[t] = "open"
    /\ sent[t] = "IDENTIFY"
    /\ identified' = TRUE
    /\ mode' = IF found = "none" THEN mode ELSE found
    /\ err' = "none"
    /\ IF found = "none"
       THEN /\ state' = "CONNECTING"
            /\ UNCHANGED <<ws, sock, sent, udp, registered, discEvents>>
       ELSE IF ~ipOk
       THEN LET d == DoDisconnect(ws, sock, "disconnected") IN
            /\ state' = d.state
            /\ sock' = d.sock
            /\ ws' = d.ws
            /\ udp' = d.udp
            /\ registered' = d.registered
            /\ discEvents' = d.discEvents
            /\ UNCHANGED sent
       ELSE /\ state' = "CONNECTING"
            /\ udp' = "connected"
            /\ sent' = SendOn(ws, sock, sent, "SELECT")
            /\ UNCHANGED <<ws, sock, registered, discEvents>>
    /\ UNCHANGED <<failed, fresh, forced, forcedRuns, endpoint, token, channel_id, heartbeat_acknowledged, reconnects,
                   max_reconnects, hbTask, hbRef, backoff, connPc, connMove,
                   connVsu, audio_ssrcs, ssrcUser, ssrcBefore>>

\* SESSION_DESCRIPTION on t, the server's answer to SELECT_PROTOCOL.
OnSessionDescription(t) ==
    /\ sock[t] = "open"
    /\ sent[t] = "SELECT"
    /\ err' = "none"
    /\ IF udp = "none"
       THEN UNCHANGED <<state, connPc, failed>>
       ELSE state' = "CONNECTED" /\ connPc' = "idle" /\ failed' = 0
    /\ UNCHANGED <<fresh, forced, forcedRuns, endpoint, token, channel_id, ws, identified,
                   heartbeat_acknowledged, reconnects, max_reconnects, registered,
                   udp, sock, sent, hbTask, hbRef, backoff, connMove, connVsu,
                   discEvents>>
    /\ UNCHANGED mediaVars

\* RESUMED on t, the server's answer to RESUME.
OnResumed(t) ==
    /\ sock[t] = "open"
    /\ sent[t] = "RESUME"
    /\ state' = "CONNECTED"
    /\ connPc' = "idle"
    /\ failed' = 0
    /\ err' = "none"
    /\ UNCHANGED <<fresh, forced, forcedRuns, endpoint, token, channel_id, ws, identified,
                   heartbeat_acknowledged, reconnects, max_reconnects, registered,
                   udp, sock, sent, hbTask, hbRef, backoff, connMove, connVsu,
                   discEvents>>
    /\ UNCHANGED mediaVars

\* HEARTBEAT_ACK on t while a heartbeat is unacknowledged.
OnHeartbeatAck(t) ==
    /\ sock[t] = "open"
    /\ ~heartbeat_acknowledged
    /\ heartbeat_acknowledged' = TRUE
    /\ err' = "none"
    /\ UNCHANGED <<failed, fresh, forced, forcedRuns, state, endpoint, token, channel_id, ws, identified, reconnects,
                   max_reconnects, registered, udp, sock, sent, hbTask, hbRef,
                   backoff, connPc, connMove, connVsu, discEvents>>
    /\ UNCHANGED mediaVars


\* ---------------------------------------------------------------- on_close
\* on_close(code) run by greenlet `me` (the transport of the heartbeat
\* greenlet that calls it, 0 for a transport's own callback): the record of
\* what it leaves and how it ends.
\*   "killed":  self._heartbeat_task.kill() was called by that very
\*              greenlet: gevent raises GreenletExit in it there, so nothing
\*              after line 393 runs;
\*   "return":  the state was DISCONNECTED;
\*   "raise":   the reconnect budget is exhausted (VoiceException);
\*   "sleep":   it entered gevent.sleep(wait).
on_close(code, me) ==
    LET kills == hbRef # 0 /\ hbTask[hbRef] \in Alive
        tasks == IF kills THEN [hbTask EXCEPT ![hbRef] = "dead"] ELSE hbTask
        ref   == IF kills THEN 0 ELSE hbRef
        n     == reconnects + 1
        hard  == IsHardClose(code)
        same  == [ hbTask |-> hbTask, hbRef |-> hbRef, ws |-> ws, state |-> state,
                   reconnects |-> reconnects, identified |-> identified,
                   udp |-> udp, wait |-> 0 ]
    IN  IF kills /\ hbRef = me
        THEN [same EXCEPT !.hbTask = tasks] @@ [out |-> "killed"]
        ELSE IF state = "DISCONNECTED"
        THEN [same EXCEPT !.hbTask = tasks, !.hbRef = ref, !.ws = 0]
             @@ [out |-> "return"]
        ELSE IF ReconnectsExceeded(n, max_reconnects)
        THEN [same EXCEPT !.hbTask = tasks, !.hbRef = ref, !.ws = 0,
                          !.state = "RECONNECTING", !.reconnects = n]
             @@ [out |-> "raise"]
        ELSE [ hbTask |-> tasks, hbRef |-> ref, ws |-> 0,
               state |-> "RECONNECTING", reconnects |-> n,
               identified |-> IF hard THEN FALSE ELSE identified,
               udp |-> IF hard /\ udp = "connected" THEN "disconnected" ELSE udp,
               wait |-> IF hard THEN HardWait ELSE SoftWait,
               out |-> "sleep" ]

\* The close callback of transport t: the server or the network closed it,
\* ws.close() closed it earlier, or connecting it failed (no close frame,
\* so no code).
OnClose(t, code) ==
    /\ sock[t] \in {"connecting", "open", "closed"}
    /\ sock[t] = "connecting" => code = NoCode
    /\ state # "DISCONNECTED" => reconnects < MaxAttempts
    /\ LET r == on_close(code, 0) IN
       /\ hbTask' = r.hbTask
       /\ hbRef' = r.hbRef
       /\ ws' = r.ws
       /\ state' = r.state
       /\ reconnects' = r.reconnects
       /\ identified' = r.identified
       /\ udp' = r.udp
       /\ backoff' = [backoff EXCEPT ![t] = r.wait]
       /\ err' = IF r.out = "raise" THEN "VoiceException_reconnect" ELSE "none"
       /\ fresh' = IF r.out = "sleep" /\ r.wait = HardWait THEN TRUE ELSE fresh
       /\ forcedRuns' = IF t = forced /\ sock[t] = "closed" /\ r.out = "sleep"
                        THEN forcedRuns + 1 ELSE forcedRuns
    /\ sock' = [sock EXCEPT ![t] = "done"]
    /\ sent' = [sent EXCEPT ![t] = "none"]
    /\ UNCHANGED <<failed, forced, endpoint, token, channel_id, heartbeat_acknowledged,
                   max_reconnects, registered, connPc, connMove, connVsu,
                   discEvents>>
    /\ UNCHANGED mediaVars

\* The on_close callback of t returns from gevent.sleep(wait_time) and calls
\* connect_and_run.
OnCloseWake(t) ==
    /\ backoff[t] # 0
    /\ NextFree # 0
    /\ backoff' = [backoff EXCEPT ![t] = 0]
    /\ sock' = OpenedSock(sock)
    /\ ws' = NextFree
    /\ sent' = Renamed(sent, "none")
    /\ hbTask' = Renamed(hbTask, "none")
    /\ hbRef' = Forgotten(hbRef)
    /\ forced' = Forgotten(forced)
    /\ forcedRuns' = ForgottenRuns
    /\ failed' = failed + 1
    /\ err' = "none"
    /\ UNCHANGED <<fresh, state, endpoint, token, channel_id, identified,
                   heartbeat_acknowledged, reconnects, max_reconnects, registered,
                   udp, connPc, connMove, connVsu, discEvents>>
    /\ UNCHANGED mediaVars

\* ---------------------------------------------------------- heartbeat_task
\* One iteration of the heartbeat greenlet spawned on t, up to its next
\* blocking call.  Acknowledged: send HEARTBEAT (dropped when self.ws is not
\* connected), mark unacknowledged, sleep.  Not acknowledged: mark
\* acknowledged and call self.ws.close(status=4000), which raises
\* AttributeError when self.ws is None and closes nothing when the socket is
\* not connected.
HeartbeatTick(t) ==
    /\ hbTask[t] \in {"started", "running"}
    /\ IF heartbeat_acknowledged
       THEN /\ heartbeat_acknowledged' = FALSE
            /\ hbTask' = [hbTask EXCEPT ![t] = "running"]
            /\ err' = "none"
            /\ UNCHANGED <<sock, forced, forcedRuns>>
       ELSE /\ heartbeat_acknowledged' = TRUE
            /\ IF ws = 0
               THEN /\ hbTask' = [hbTask EXCEPT ![t] = "dead"]
                    /\ err' = "AttributeError"
                    /\ UNCHANGED <<sock, forced, forcedRuns>>
               ELSE /\ hbTask' = [hbTask EXCEPT ![t] = "closing"]
                    /\ sock' = IF sock[ws] = "open"
                               THEN [sock EXCEPT ![ws] = "closed"] ELSE sock
                    /\ forced' = IF sock[ws] = "open" THEN ws ELSE 0
                    /\ forcedRuns' = 0
                    /\ err' = "none"
    /\ UNCHANGED <<failed, fresh, state, endpoint, token, channel_id, ws, identified, reconnects,
                   max_reconnects, registered, udp, sent, hbRef, backoff, connPc,
                   connMove, connVsu, discEvents>>
    /\ UNCHANGED mediaVars

\* The heartbeat greenlet of t, back from ws.close, calls
\* self.on_close(0, 'HEARTBEAT failure') and returns.
HeartbeatOnClose(t) ==
    /\ hbTask[t] = "closing"
    /\ state # "DISCONNECTED" => reconnects < MaxAttempts
    /\ LET r == on_close(0, t) IN
       /\ hbTask' = [r.hbTask EXCEPT ![t] =
                        IF r.out = "sleep" THEN "sleeping" ELSE "dead"]
       /\ hbRef' = r.hbRef
       /\ ws' = r.ws
       /\ state' = r.state
       /\ reconnects' = r.reconnects
       /\ identified' = r.identified
       /\ udp' = r.udp
       /\ err' = IF r.out = "raise" THEN "VoiceException_reconnect" ELSE "none"
       /\ forcedRuns' = IF r.out = "sleep" THEN forcedRuns + 1 ELSE forcedRuns
    /\ UNCHANGED <<failed, fresh, forced, endpoint, token, channel_id, heartbeat_acknowledged,
                   max_reconnects, registered, sock, sent, backoff, connPc,
                   connMove, connVsu, discEvents>>
    /\ UNCHANGED mediaVars

\* That on_close returns from gevent.sleep and calls connect_and_run; the
\* greenlet then serves the new websocket's run_forever.
HeartbeatOnCloseWake(t) ==
    /\ hbTask[t] = "sleeping"
    /\ NextFree # 0
    /\ hbTask' = [Renamed(hbTask, "none") EXCEPT ![t] = "dead"]
    /\ sock' = OpenedSock(sock)
    /\ ws' = NextFree
    /\ sent' = Renamed(sent, "none")
    /\ hbRef' = Forgotten(hbRef)
    /\ forced' = Forgotten(forced)
    /\ forcedRuns' = ForgottenRuns
    /\ failed' = failed + 1
    /\ err' = "none"
    /\ UNCHANGED <<fresh, state, endpoint, token, channel_id, identified,
                   heartbeat_acknowledged, reconnects, max_reconnects, registered,
                   udp, backoff, connPc, connMove, connVsu, discEvents>>
    /\ UNCHANGED mediaVars


\* ------------------------------------------------------ connect, disconnect
\* Connect without the test for the channel the session is already on.
Connect_NoSameChannelTest(ch) ==
    /\ connPc # "waiting"
    /\ IF ch = 0
       THEN /\ err' = "VoiceException_empty_channel"
            /\ UNCHANGED <<state, connPc, connMove, connVsu>>
       ELSE /\ state' = IF state # "CONNECTED" THEN "AWAITING_ENDPOINT" ELSE state
            /\ connPc' = "waiting"
            /\ connMove' = (state = "CONNECTED")
            /\ connVsu' = 1
            /\ err' = "none"
    /\ UNCHANGED <<failed, fresh, forced, forcedRuns, endpoint, token, channel_id, ws, identified,
                   heartbeat_acknowledged, reconnects, max_reconnects, registered,
                   udp, sock, sent, hbTask, hbRef, backoff, discEvents>>
    /\ UNCHANGED mediaVars

\* connect(channel_id) up to its wait for CONNECTED (is_dm is False).  A
\* call targeting the session's channel while CONNECTED returns at once; any
\* other call sends one voice-state-update and blocks in
\* state_emitter.once(CONNECTED, timeout).
Connect(ch) ==
    /\ connPc # "waiting"
    /\ IF ch = 0
       THEN /\ err' = "VoiceException_empty_channel"
            /\ UNCHANGED <<state, connPc, connMove, connVsu>>
       ELSE IF channel_id = ch /\ state = "CONNECTED"
       THEN /\ err' = "none"
            /\ connPc' = "returned"
            /\ connVsu' = 0
            /\ UNCHANGED <<state, connMove>>
       ELSE /\ state' = IF channel_id # ch /\ state # "CONNECTED"
                        THEN "AWAITING_ENDPOINT" ELSE state
            /\ connPc' = "waiting"
            /\ connMove' = (state = "CONNECTED")
            /\ connVsu' = 1
            /\ err' = "none"
    /\ UNCHANGED <<failed, fresh, forced, forcedRuns, endpoint, token, channel_id, ws, identified,
                   heartbeat_acknowledged, reconnects, max_reconnects, registered,
                   udp, sock, sent, hbTask, hbRef, backoff, discEvents>>
    /\ UNCHANGED mediaVars

\* The wait of connect() times out: disconnect(), then VoiceException
\* (a KeyError raised by disconnect() comes out instead).
ConnectTimeout ==
    /\ connPc = "waiting"
    /\ connPc' = "idle"
    /\ IF state = "DISCONNECTED"
       THEN /\ err' = "VoiceException_connect"
            /\ UNCHANGED <<state, sock, ws, udp, registered, discEvents, connVsu>>
       ELSE LET d == DoDisconnect(ws, sock, udp) IN
            /\ state' = d.state
            /\ sock' = d.sock
            /\ ws' = d.ws
            /\ udp' = d.udp
            /\ registered' = d.registered
            /\ discEvents' = d.discEvents
            /\ connVsu' = connVsu + 1
            /\ err' = IF d.err = "none" THEN "VoiceException_connect" ELSE d.err
    /\ UNCHANGED <<failed, fresh, forced, forcedRuns, endpoint, token, channel_id, identified, heartbeat_acknowledged,
                   reconnects, max_reconnects, sent, hbTask, hbRef, backoff,
                   connMove>>
    /\ UNCHANGED mediaVars

\* disconnect() called by the user of the session.
Disconnect ==
    /\ IF state = "DISCONNECTED"
       THEN /\ err' = "none"
            /\ UNCHANGED <<state, sock, ws, udp, registered, discEvents>>
       ELSE LET d == DoDisconnect(ws, sock, udp) IN
            /\ state' = d.state
            /\ sock' = d.sock
            /\ ws' = d.ws
            /\ udp' = d.udp
            /\ registered' = d.registered
            /\ discEvents' = d.discEvents
            /\ err' = d.err
    /\ UNCHANGED <<failed, fresh, forced, forcedRuns, endpoint, token, channel_id, identified, heartbeat_acknowledged,
                   reconnects, max_reconnects, sent, hbTask, hbRef, backoff,
                   connPc, connMove, connVsu>>
    /\ UNCHANGED mediaVars

\* The parent client stores the channel the gateway reports for the session.
VoiceStateUpdate(ch) ==
    /\ channel_id # ch
    /\ channel_id' = ch
    /\ err' = "none"
    /\ UNCHANGED <<failed, fresh, forced, forcedRuns, state, endpoint, token, ws, identified, heartbeat_acknowledged,
                   reconnects, max_reconnects, registered, udp, sock, sent,
                   hbTask, hbRef, backoff, connPc, connMove, connVsu, discEvents>>
    /\ UNCHANGED mediaVars

\* ------------------------------------------------------------ SSRC registry
SessionVars ==
    <<state, endpoint, token, channel_id, ws, identified,
      heartbeat_acknowledged, reconnects, max_reconnects, registered, udp,
      sock, sent, hbTask, hbRef, backoff, connPc, connMove, connVsu,
      discEvents, failed, fresh, forced, forcedRuns, mode>>

\* CLIENT_CONNECT: audio_ssrcs[data['audio_ssrc']] = user_id.
OnClientConnect(ssrc, user) ==
    /\ audio_ssrcs' = DictSet(audio_ssrcs, ssrc, user)
    /\ ssrcUser' = user
    /\ ssrcBefore' = audio_ssrcs
    /\ err' = "none"
    /\ UNCHANGED SessionVars

\* SPEAKING: audio_ssrcs[data['ssrc']] = user_id (and a VoiceSpeaking event).
OnSpeaking(ssrc, user) ==
    /\ audio_ssrcs' = DictSet(audio_ssrcs, ssrc, user)
    /\ ssrcUser' = 0
    /\ ssrcBefore' = <<>>
    /\ err' = "none"
    /\ UNCHANGED SessionVars

\* CLIENT_DISCONNECT: the first mapping whose value is the user is deleted.
OnClientDisconnect(user) ==
    /\ audio_ssrcs' = DelFirstValue(audio_ssrcs, user)
    /\ ssrcUser' = 0
    /\ ssrcBefore' = <<>>
    /\ err' = "none"
    /\ UNCHANGED SessionVars

\* ------------------------------------------------------------ specification
\* The gateway's calls: VOICE_SERVER_UPDATE handling.
Signalling ==
    \/ \E ep \in EndpointArgs : SetEndpoint(ep)
    \/ \E tk \in TokenArgs : SetToken(tk)

\* The READY payloads of the handshake below: one advertising no supported
\* mode and one advertising a single supported mode, which every visiting
\* order selects.
ReadyModes == {{"aead_aes256_gcm"}, {"aead_aes256_gcm", "xsalsa20_poly1305"}}

ReadyOrder == CHOOSE o \in ModeOrders : TRUE

\* The websockets' callbacks of the handshake.
Handshake ==
    \/ \E t \in Transports : OnOpen(t)
    \/ \E t \in Transports : OnHello(t)
    \/ \E t \in Transports, modes \in ReadyModes, ipOk \in BOOLEAN :
          OnReady(t, modes, ReadyOrder, ipOk)
    \/ \E t \in Transports : OnSessionDescription(t)

\* The websockets' close callbacks, the reopening and the resumption.
Reconnection ==
    \/ \E t \in Transports, code \in SessionCodes : OnClose(t, code)
    \/ \E t \in Transports : OnCloseWake(t)
    \/ \E t \in Transports : OnResumed(t)

\* The heartbeat greenlets and the server's acknowledgements.
Heartbeat ==
    \/ \E t \in Transports : OnHeartbeatAck(t)
    \/ \E t \in Transports : HeartbeatTick(t)
    \/ \E t \in Transports : HeartbeatOnClose(t)
    \/ \E t \in Transports : HeartbeatOnCloseWake(t)

\* The session's user calling connect().
Connecting ==
    \/ \E ch \in Channels \cup {0} : Connect(ch)
    \/ ConnectTimeout
    \/ \E ch \in Channels \cup {0} : VoiceStateUpdate(ch)

\* The session from its construction on: signalling, transports, heartbeat
\* greenlets and disconnect().
Next == Signalling \/ Handshake \/ Reconnection \/ Heartbeat \/ Disconnect

Spec == Init /\ [][Next]_vars

\* The session driven through connect() while its transports stay up:
\* connect() and its timeout, the gateway's voice state, signalling, the
\* handshake and disconnect().
NextConnect == Connecting \/ Signalling \/ Handshake \/ Disconnect

SpecConnect == Init /\ [][NextConnect]_vars

\* The same without the gateway's voice state: the session's channel_id stays
\* None, as the code of VoiceClient alone leaves it.
NextCalls ==
    \/ \E ch \in Channels \cup {0} : Connect(ch)
    \/ ConnectTimeout
    \/ Signalling
    \/ Handshake
    \/ Disconnect

SpecCalls == Init /\ [][NextCalls]_vars

\* The handshake up to READY, for every set of advertised modes and every
\* order the set of supported modes may be visited in.
NextModes ==
    \/ Signalling
    \/ \E t \in Transports : OnOpen(t)
    \/ \E t \in Transports, modes \in SUBSET AdvertisedModes, order \in ModeOrders,
          ipOk \in BOOLEAN : OnReady(t, modes, order, ipOk)

SpecModes == Init /\ [][NextModes]_vars

\* The websockets' handshakes, closes and reopenings for every close code,
\* with no heartbeat iteration and no disconnect().
NextClose ==
    \/ Signalling
    \/ Handshake
    \/ \E t \in Transports, code \in CloseCodes : OnClose(t, code)
    \/ \E t \in Transports : OnCloseWake(t)
    \/ \E t \in Transports : OnResumed(t)

SpecClose == Init /\ [][NextClose]_vars

\* The SSRC registry under the events of the other users of the channel.
NextSsrc ==
    \/ \E ssrc \in Ssrcs, user \in Users : OnClientConnect(ssrc, user)
    \/ \E ssrc \in Ssrcs, user \in Users : OnSpeaking(ssrc, user)
    \/ \E user \in Users : OnClientDisconnect(user)

SpecSsrc == Init /\ [][NextSsrc]_vars


\* ================================================================== claims
\* This step is the close callback of websocket t.
ClosedNow(t) == sock[t] # "done" /\ sock'[t] = "done"

\* This step is on_open of websocket t.
OpenedNow(t) == sock[t] = "connecting" /\ sock'[t] = "open"

\* C1: once disconnect() has set the state to DISCONNECTED (and removed the
\* session from the registry), no close handler, whether a websocket's
\* callback or the heartbeat greenlet's call, returns from its backoff sleep
\* into connect_and_run.
C1_NoReopenAfterDisconnect ==
    [][(state = "DISCONNECTED" /\ ~registered) =>
          \A t \in Transports : ~OnCloseWake(t) /\ ~HeartbeatOnCloseWake(t)]_vars

\* C2: connect_and_run is never attempted while the endpoint is missing (no
\* TypeError from set_token), and once the endpoint and the token are both
\* present a websocket has been created, in either arrival order.
C2_OpenOnceBothPresent ==
    /\ err # "TypeError"
    /\ (endpoint # 0 /\ token # 0) => \E t \in Transports : sock[t] # "unused"

\* C3: with max_reconnects nonzero, a close handled while the state is not
\* DISCONNECTED, after at least max_reconnects consecutive reopenings that
\* did not reach CONNECTED, raises the VoiceException and neither enters the
\* backoff nor creates a websocket; with max_reconnects = 0 a close handler
\* never raises it.
C3_ReconnectBudget ==
    [][ /\ \A t \in Transports, c \in SessionCodes :
              (ClosedNow(t) /\ state # "DISCONNECTED" /\ OnClose(t, c)) =>
                 /\ (max_reconnects # 0 /\ failed >= max_reconnects) =>
                       /\ err' = "VoiceException_reconnect"
                       /\ backoff'[t] = 0
                       /\ \A u \in Transports :
                             sock'[u] = "connecting" => sock[u] = "connecting"
                 /\ max_reconnects = 0 => err' # "VoiceException_reconnect"
        /\ \A t \in Transports :
              (hbTask[t] = "closing" /\ hbRef # t /\ state # "DISCONNECTED"
                 /\ HeartbeatOnClose(t)) =>
                 /\ (max_reconnects # 0 /\ failed >= max_reconnects) =>
                       /\ err' = "VoiceException_reconnect"
                       /\ hbTask'[t] = "dead"
                       /\ sock' = sock
                 /\ max_reconnects = 0 => err' # "VoiceException_reconnect"
      ]_vars

\* C3 witness: a close handler has just raised the VoiceException after
\* max_reconnects consecutive failed reopenings.
C3_Witness ==
    /\ err = "VoiceException_reconnect"
    /\ max_reconnects # 0
    /\ failed >= max_reconnects
    /\ state = "RECONNECTING"

\* C4: when a close handler has raised the VoiceException for the exhausted
\* budget, the state is DISCONNECTED and the session is out of the registry.
C4_ExhaustionTearsDown ==
    err = "VoiceException_reconnect" => (state = "DISCONNECTED" /\ ~registered)

\* C5: for one close forced by the heartbeat greenlet, the runs of on_close
\* that go on to reconnect (the greenlet's own call and the callback of the
\* websocket it closed) number at most one, and exactly one once the
\* greenlet's call and the callback are both over (for a session still
\* registered and with no reconnect limit).
C5_ForcedReconnectOnce ==
    /\ forcedRuns <= 1
    /\ ( /\ forced # 0
         /\ sock[forced] = "done"
         /\ \A t \in Transports : hbTask[t] # "closing"
         /\ max_reconnects = 0
         /\ registered ) => forcedRuns = 1

\* C6 as stated: a close that enters the backoff waits 5 seconds exactly when
\* its code is in 4001..4015 or is 1001, and 1 second otherwise.
C6_HardRangeTo4015 ==
    [][\A t \in Transports, c \in CloseCodes :
          (ClosedNow(t) /\ backoff'[t] # 0 /\ OnClose(t, c)) =>
             backoff'[t] = IF c \in (4001..4015) \cup {1001}
                           THEN HardWait ELSE SoftWait]_vars

\* C6 amended: a close that enters the backoff waits 5 seconds exactly when
\* its code is in 4001..4016 or is 1001, and 1 second for every other code
\* and for a missing code.
C6_HardRangeTo4016 ==
    [][\A t \in Transports, c \in CloseCodes :
          (ClosedNow(t) /\ backoff'[t] # 0 /\ OnClose(t, c)) =>
             backoff'[t] = IF c \in (4001..4016) \cup {1001}
                           THEN HardWait ELSE SoftWait]_vars

\* C6 witness: two close callbacks are in their backoff, one after a hard
\* close and one after a soft close.
C6_Witness ==
    \E t, u \in Transports : backoff[t] = HardWait /\ backoff[u] = SoftWait

\* C7: an endpoint change and a hard close that enters the backoff clear
\* identified, a soft close keeps it, and the on_open that follows an
\* endpoint change or a hard close finds identified false (sends IDENTIFY).
C7_IdentifyAfterReset ==
    [][ /\ endpoint' # endpoint => ~identified'
        /\ \A t \in Transports, c \in CloseCodes :
              /\ (ClosedNow(t) /\ backoff'[t] = HardWait /\ OnClose(t, c)) =>
                    ~identified'
              /\ (ClosedNow(t) /\ backoff'[t] = SoftWait /\ OnClose(t, c)) =>
                    identified' = identified
        /\ \A t \in Transports :
              (OpenedNow(t) /\ fresh /\ OnOpen(t)) =>
                 HandshakeOp(identified) = "IDENTIFY"
      ]_vars

\* C8: disconnect() on a session that is not DISCONNECTED raises nothing,
\* leaves the state DISCONNECTED and emits one VoiceDisconnect; disconnect()
\* on a DISCONNECTED session (the second call in a row) raises nothing,
\* changes nothing and emits nothing.
C8_DisconnectIdempotent ==
    [][Disconnect =>
          IF state # "DISCONNECTED"
          THEN /\ err' = "none"
               /\ state' = "DISCONNECTED"
               /\ discEvents' = discEvents + 1
          ELSE /\ err' = "none"
               /\ state' = "DISCONNECTED"
               /\ discEvents' = discEvents]_vars

\* C9: the registry entry stays until disconnect() runs (only a step that
\* leaves the state DISCONNECTED removes it), and after any disconnect() call
\* the registry has no entry for the session.
C9_RegistryUntilDisconnect ==
    [][ /\ (registered /\ ~registered') => state' = "DISCONNECTED"
        /\ Disconnect => ~registered' ]_vars

\* C10: a connect() that found the state CONNECTED with another channel
\* sends one voice-state-update in all, and its timeout closes no websocket
\* and leaves the state, self.ws and the registry entry as they were.
C10_MoveKeepsSession ==
    [][(ConnectTimeout /\ connMove) =>
          /\ connVsu' = 1
          /\ sock' = sock
          /\ ws' = ws
          /\ state' = state
          /\ registered' = registered]_vars

\* C11: connect(ch) called while the state is CONNECTED and the session is
\* on channel ch returns at once without error: it sends no
\* voice-state-update, does not wait, and leaves the state, self.ws and
\* every websocket as they were.
C11_SameChannelReturns ==
    [][\A ch \in Channels :
          (channel_id = ch /\ state = "CONNECTED" /\ Connect(ch)) =>
             /\ err' = "none"
             /\ connPc' = "returned"
             /\ connVsu' = 0
             /\ state' = "CONNECTED"
             /\ ws' = ws
             /\ sock' = sock
             /\ sent' = sent]_vars

\* C11 witness: a connect() on the session's own channel has returned at
\* once, the session being CONNECTED with its websocket open.
C11_Witness ==
    /\ connPc = "returned"
    /\ state = "CONNECTED"
    /\ channel_id # 0
    /\ Connected(ws)

\* C12: when the wait of a connect() called on a session that was not
\* CONNECTED times out, VoiceException is raised, the state is DISCONNECTED
\* and the session is out of the registry.
C12_TimeoutTearsDown ==
    [][(ConnectTimeout /\ ~connMove) =>
          /\ err' = "VoiceException_connect"
          /\ state' = "DISCONNECTED"
          /\ ~registered']_vars

\* The fixed priority order of the supported modes.
PriorityOrder ==
    <<"xsalsa20_poly1305_lite", "xsalsa20_poly1305_suffix", "xsalsa20_poly1305">>

\* This step is a READY handled on websocket t.
ReadyNow(t) == sock[t] = "open" /\ sent[t] = "IDENTIFY" /\ identified'

\* C13: a READY whose advertised modes hold a supported one leaves in
\* self.mode the first mode of the fixed priority order that is advertised,
\* whatever order the set of supported modes is visited in.
C13_FirstByPriority ==
    [][\A t \in Transports :
          ReadyNow(t) =>
             \A modes \in SUBSET AdvertisedModes, order \in ModeOrders, ipOk \in BOOLEAN :
                (modes \cap SUPPORTED_MODES # {} /\ OnReady(t, modes, order, ipOk)) =>
                   mode' = SelectMode(PriorityOrder, modes)]_vars

\* C14: a READY advertising no supported mode sends no SELECT_PROTOCOL and
\* leaves the session DISCONNECTED and out of the registry.
C14_NoModeIsFatal ==
    [][\A t \in Transports :
          ReadyNow(t) =>
             \A modes \in SUBSET AdvertisedModes, order \in ModeOrders, ipOk \in BOOLEAN :
                (modes \cap SUPPORTED_MODES = {} /\ OnReady(t, modes, order, ipOk)) =>
                   /\ sent' = sent
                   /\ state' = "DISCONNECTED"
                   /\ ~registered']_vars

\* The mappings of registry d whose value is user v, in d's order.
MappingsOf(d, v) == SelectSeq(d, LAMBDA item : item[2] = v)

\* C15: a CLIENT_DISCONNECT for user u handled right after a CLIENT_CONNECT
\* for u leaves no mapping whose value is u, and leaves every other user
\* the mappings it had before the CLIENT_CONNECT.
C15_ConnectThenDisconnect ==
    [][\A u \in Users :
          (ssrcUser = u /\ OnClientDisconnect(u)) =>
             /\ MappingsOf(audio_ssrcs', u) = <<>>
             /\ \A v \in Users \ {u} :
                   MappingsOf(audio_ssrcs', v) = MappingsOf(ssrcBefore, v)]_vars

\* C16: at most one websocket created by connect_and_run is connecting or
\* open at any time.
C16_SingleTransport ==
    Cardinality({t \in Transports : sock[t] \in {"connecting", "open"}}) <= 1

\* C17: an iteration of the heartbeat greenlet spawned on websocket t that
\* runs after t was closed raises nothing, sends nothing, closes no websocket,
\* starts no forced reconnection and leaves self.state and self.ws alone.
C17_LateHeartbeatNoOp ==
    [][\A t \in Transports :
          (hbTask[t] \in {"started", "running"} /\ sock[t] \in {"closed", "done"}
             /\ HeartbeatTick(t)) =>
             /\ err' = "none"
             /\ sent' = sent
             /\ sock' = sock
             /\ hbTask'[t] # "closing"
             /\ state' = state
             /\ ws' = ws]_vars

\* C18: on_open sending IDENTIFY leaves the state AUTHENTICATING, and every
\* HELLO finds the state AUTHENTICATING.
C18_HelloFromAuthenticating ==
    [][\A t \in Transports :
          /\ (OpenedNow(t) /\ ~identified /\ OnOpen(t)) => state' = "AUTHENTICATING"
          /\ (hbTask[t] = "none" /\ hbTask'[t] = "started" /\ OnHello(t)) =>
                state = "AUTHENTICATING"]_vars

\* C20: the close of the session's only websocket, handled while the state
\* is CONNECTED and no reconnect attempt is under way (the attempts before it
\* all ended in a return to CONNECTED), never raises the VoiceException of
\* the exhausted reconnect budget.
C20_BudgetResetsOnConnected ==
    [][\A t \in Transports, c \in CloseCodes :
          ( /\ ClosedNow(t) /\ state = "CONNECTED" /\ failed = 0
            /\ \A u \in Transports :
                  /\ backoff[u] = 0
                  /\ hbTask[u] \notin {"closing", "sleeping"}
                  /\ u # t => sock[u] \in {"unused", "done"}
            /\ OnClose(t, c) ) =>
             err' # "VoiceException_reconnect"]_vars

\* C19: the first iteration of the heartbeat greenlet spawned by the HELLO
\* of the session's websocket (the only websocket open or opening, no close
\* callback in its backoff, no other heartbeat greenlet at work, no close
\* forced by one on record) sends a heartbeat: it does not close the
\* websocket for a missed acknowledgement, whatever heartbeat was
\* unacknowledged when an earlier websocket closed.
C19_FirstIterationSends ==
    [][\A t \in Transports :
          ( /\ hbTask[t] = "started"
            /\ ws = t /\ sock[t] = "open"
            /\ forced = 0
            /\ \A u \in Transports \ {t} :
                  /\ hbTask[u] \notin Alive
                  /\ sock[u] \in {"unused", "done"}
                  /\ backoff[u] = 0
            /\ HeartbeatTick(t) ) =>
             /\ hbTask'[t] = "running"
             /\ ~heartbeat_acknowledged'
             /\ sock' = sock
             /\ err' = "none"]_vars

====
